---- MODULE Spec2Model ----
(***************************************************************************)
(* The upload-to-API request lifecycle of the Gemini gateway, in its two   *)
(* variants (src/index.js and src/unnamed/part_000).  A behaviour is one   *)
(* server process of one variant serving NumReqs requests concurrently.    *)
(* JavaScript runs to completion between two asynchronous events, so each  *)
(* action is one such run: the request's arrival with multer meeting the   *)
(* file part, multer finishing the upload and calling the route handler,   *)
(* which runs up to `await client.models.generateContent`, and the handler *)
(* from the settled promise to its end.  log[r] records, in order, what    *)
(* the runs did for request r; running is whether the node process is      *)
(* still alive.                                                            *)
(***************************************************************************)
EXTENDS Integers, Sequences, FiniteSets, TLC

VARIABLES variant, running, pc, req, path, reqFile, files, filterCalls,
          parts, genres, log, resp

vars == <<variant, running, pc, req, path, reqFile, files, filterCalls,
          parts, genres, log, resp>>

\* Number of requests the server receives in one behaviour.
NumReqs == 2

Reqs == 1..NumReqs

Variants == {"index.js", "part_000"}

\* What the installed express does with a rejected async handler:
\* express 4 leaves the rejection unhandled, express 5 passes it to next(err).
AsyncErrorModes == {"unhandled", "forwarded"}

Absent == "(absent)"

NoErr == [kind |-> "none", code |-> "", message |-> ""]

----------------------------------------------------------------------------
(* Inputs *)

NoFile == [present |-> FALSE, mimetype |-> <<>>, size |-> 0, data |-> <<>>]

\* Uploaded files: declared MIME type (split at its "/"), size in bytes, and
\* the leading bytes of the content (the bytes the model carries through the
\* encoding).
SmallJpeg ==
  [present |-> TRUE, mimetype |-> <<"image", "jpeg">>, size |-> 200 * 1024,
   data |-> <<255, 216, 255>>]

Uploads ==
  { SmallJpeg,
    [present |-> TRUE, mimetype |-> <<"image", "png">>,
     size |-> 7 * 1024 * 1024, data |-> <<137, 80>>],
    [present |-> TRUE, mimetype |-> <<"text", "plain">>, size |-> 1024,
     data |-> <<104>>],
    [present |-> TRUE, mimetype |-> <<"image", "jpeg">>,
     size |-> 20 * 1024 * 1024, data |-> <<255, 216, 255>>] }

\* The form field `prompt`: absent, empty, or a text.
Prompts == { <<>>, <<"">>, <<"describe">> }

\* The requests a client sends: the prompt is varied with the small JPEG,
\* the other uploads come with a prompt text.
Inputs ==
  { [route |-> "health", file |-> NoFile, prompt |-> <<>>],
    [route |-> "test", file |-> NoFile, prompt |-> <<>>] }
  \cup { [route |-> "analyze", file |-> SmallJpeg, prompt |-> p] :
           p \in Prompts }
  \cup { [route |-> "analyze", file |-> f, prompt |-> <<"describe">>] :
           f \in (Uploads \cup {NoFile}) \ {SmallJpeg} }

\* What the upstream generateContent promise settles to.
GenResults ==
  { [kind |-> "ok", text |-> "A cat."],
    [kind |-> "err", text |-> "quota exceeded"],
    [kind |-> "err", text |-> "API key not valid"] }

NoGen == [kind |-> "none", text |-> ""]

----------------------------------------------------------------------------
(* Pure helpers *)

Range(s) == { s[i] : i \in 1..Len(s) }

\* file.mimetype.startsWith("image/"), on a MIME type split at its "/"
StartsWithImage(m) == Len(m) >= 2 /\ m[1] = "image"

B64Alphabet ==
  << "A","B","C","D","E","F","G","H","I","J","K","L","M","N","O","P",
     "Q","R","S","T","U","V","W","X","Y","Z","a","b","c","d","e","f",
     "g","h","i","j","k","l","m","n","o","p","q","r","s","t","u","v",
     "w","x","y","z","0","1","2","3","4","5","6","7","8","9","+","/" >>

B64Char(i) == B64Alphabet[i + 1]

\* Buffer.toString("base64")
RECURSIVE Base64(_)
Base64(b) ==
  IF Len(b) = 0 THEN ""
  ELSE IF Len(b) = 1 THEN
    B64Char(b[1] \div 4) \o B64Char((b[1] % 4) * 16) \o "=="
  ELSE IF Len(b) = 2 THEN
    B64Char(b[1] \div 4) \o B64Char((b[1] % 4) * 16 + (b[2] \div 16))
      \o B64Char((b[2] % 16) * 4) \o "="
  ELSE
    B64Char(b[1] \div 4) \o B64Char((b[1] % 4) * 16 + (b[2] \div 16))
      \o B64Char((b[2] % 16) * 4 + (b[3] \div 64)) \o B64Char(b[3] % 64)
      \o Base64(SubSeq(b, 4, Len(b)))

FileSizeLimit(v) ==
  IF v = "index.js" THEN 10 * 1024 * 1024 ELSE 5 * 1024 * 1024

DefaultPrompt(v) ==
  IF v = "index.js" THEN "Analyze this image"
  ELSE "Analyze this image and explain what you see"

\* req.body.prompt || <default>
PromptOrDefault(v, p) ==
  IF p = <<>> \/ p = <<"">> THEN DefaultPrompt(v) ELSE p[1]

TextPart(t) == [kind |-> "text", text |-> t, mimeType |-> "", data |-> ""]

InlineDataPart(m, d) ==
  [kind |-> "inlineData", text |-> "", mimeType |-> m, data |-> d]

\* The parts of the /analyze-image generateContent call.
ImageParts(v, rq) ==
  << TextPart(PromptOrDefault(v, rq.prompt)),
     InlineDataPart(rq.file.mimetype, Base64(rq.file.data)) >>

\* The parts of the /test-gemini generateContent call.
TestParts(v) ==
  << TextPart(IF v = "index.js" THEN "Say hello"
              ELSE "Say 'Gemini API is working' in one sentence.") >>

\* res.json(...): the fields of the JSON body (body is the text of a
\* response that is not JSON).
Json(status, error, details, output, success) ==
  [status |-> status, type |-> "json", error |-> error, details |-> details,
   output |-> output, success |-> success, body |-> Absent]

\* res.send(text) of GET /: status 200 and a text body (its check-mark
\* character is written U+2705 here).
HealthText(v) ==
  [status |-> 200, type |-> "text", error |-> Absent, details |-> Absent,
   output |-> Absent, success |-> Absent,
   body |-> IF v = "index.js" THEN "Gemini backend running U+2705"
            ELSE "U+2705 Gemini backend is running"]

\* multer's fileFilter: the sequence of results it passes to cb.  Without a
\* fileFilter option multer accepts every file.
FileFilterCalls(v, file) ==
  IF v = "index.js" THEN << "accept" >>
  ELSE IF ~StartsWithImage(file.mimetype) THEN << "reject", "accept" >>
  ELSE << "accept" >>

\* multer's default filename under dest: a fresh random name per file
\* (n counts the files multer has named so far).
Filename(n) == n

----------------------------------------------------------------------------
(* express: the layer stack and error dispatch *)

Stack(v) ==
  IF v = "index.js"
  THEN << "cors", "multerErrorHandler", "GET /", "GET /test-gemini",
          "POST /analyze-image" >>
  ELSE << "cors", "express.json", "GET /", "GET /test-gemini",
          "POST /analyze-image" >>

RouteLayer(v, route) ==
  CHOOSE i \in 1..Len(Stack(v)) :
    Stack(v)[i] = (IF route = "health" THEN "GET /"
                   ELSE IF route = "test" THEN "GET /test-gemini"
                   ELSE "POST /analyze-image")

\* express offers an error only to the error-handling layers that follow the
\* layer that raised it.
ErrorLayersAfter(v, i) ==
  { j \in (i + 1)..Len(Stack(v)) : Stack(v)[j] = "multerErrorHandler" }

\* app.use((err, req, res, next) => ...): the response it writes, or <<>>
\* when it passes the error on with next(err).
MulterErrorMiddleware(err) ==
  IF err.kind = "MulterError"
  THEN << Json(400, "Upload error", err.code, Absent, Absent) >>
  ELSE << >>

\* express's default error handler: err has no status, so 500 and an HTML
\* page showing the error.
FinalHandler(err) ==
  [status |-> 500, type |-> "html", error |-> Absent, details |-> Absent,
   output |-> Absent, success |-> Absent, body |-> err.message]

\* The response written for an error passed to next(err) by `route`.
OnError(v, route, err) ==
  IF ErrorLayersAfter(v, RouteLayer(v, route)) # {}
       /\ MulterErrorMiddleware(err) # << >>
  THEN MulterErrorMiddleware(err)[1]
  ELSE FinalHandler(err)

----------------------------------------------------------------------------
(* One synchronous run of a handler, as a function on a context: the files *)
(* on disk, the request's log and responses, req.file (hasFile, path), the *)
(* pending exception, whether the handler has returned or is awaiting, and *)
(* whether the process has exited.                                         *)

Ctx(r, hasFile) ==
  [files |-> files, log |-> log[r], resp |-> resp[r], hasFile |-> hasFile,
   path |-> path[r], threw |-> NoErr, returned |-> FALSE, awaiting |-> FALSE,
   exited |-> FALSE]

Throw(c, e) == [c EXCEPT !.threw = e]

Note(c, ev) == [c EXCEPT !.log = Append(@, ev)]

\* uploads/ is a directory of the file system: the request's temp file may
\* be removed from outside the program.  The points of a handler run at
\* which that shows: before the run's first file system call ("start"),
\* before the catch block's fs.existsSync ("catch"), and between that
\* fs.existsSync and the fs.unlinkSync it guards ("unlink").
GonePoints == {"no", "start", "catch", "unlink"}

\* The temp file is removed from outside, if it is still there (gone).
Vanish(c, gone) ==
  IF gone /\ c.hasFile /\ c.path \in c.files
  THEN Note([c EXCEPT !.files = @ \ {c.path}], "gone")
  ELSE c

\* res.json / res.status(..).json: node refuses a second response.
Send(c, response) ==
  IF c.resp # << >>
  THEN Throw(Note(c, "send:ERR_HTTP_HEADERS_SENT"),
             [kind |-> "Error", code |-> "ERR_HTTP_HEADERS_SENT",
              message |-> "Cannot set headers after they are sent to the client"])
  ELSE [c EXCEPT !.resp = Append(@, response), !.log = Append(@, "respond")]

\* fs.readFileSync(p); `fails` is an I/O failure of the environment (no
\* file descriptor left: open fails before the path is looked up).
ReadFileSync(c, p, fails) ==
  IF fails
  THEN Throw(Note(c, "read:EMFILE"),
             [kind |-> "Error", code |-> "EMFILE",
              message |-> "EMFILE: too many open files, open"])
  ELSE IF p \notin c.files
  THEN Throw(Note(c, "read:ENOENT"),
             [kind |-> "Error", code |-> "ENOENT",
              message |-> "ENOENT: no such file or directory, open"])
  ELSE Note(c, "read")

\* fs.unlinkSync(p); `fails` is an I/O failure of the environment.
UnlinkSync(c, p, fails) ==
  IF p \notin c.files
  THEN Throw(Note(c, "unlink:ENOENT"),
             [kind |-> "Error", code |-> "ENOENT",
              message |-> "ENOENT: no such file or directory, unlink"])
  ELSE IF fails
  THEN Throw(Note(c, "unlink:EPERM"),
             [kind |-> "Error", code |-> "EPERM",
              message |-> "EPERM: operation not permitted, unlink"])
  ELSE [c EXCEPT !.files = @ \ {p}, !.log = Append(@, "unlink")]

ApiError(g) == [kind |-> "ApiError", code |-> "", message |-> g.text]

UndefinedRead(prop) ==
  [kind |-> "TypeError", code |-> "",
   message |-> "Cannot read properties of undefined (reading '" \o prop \o "')"]

\* The 500 body of the /analyze-image catch block.
AnalyzeFailure(v, err) ==
  IF v = "index.js"
  THEN Json(500, "Gemini processing failed", err.message, Absent, Absent)
  ELSE Json(500, "Image analysis failed", Absent, Absent, Absent)

\* The guard of part_000 without its `return`: the handler goes on after the
\* 400 response.
AnalyzeEntryNoReturn(v, c) ==
  IF v = "index.js"
  THEN IF c.hasFile THEN c ELSE Throw(c, UndefinedRead("size"))
  ELSE IF c.hasFile THEN c
       ELSE Send(c, Json(400, "Image is required", Absent, Absent, Absent))

\* The first statement of the /analyze-image try block.
AnalyzeEntry(v, c) ==
  IF v = "index.js"
  THEN IF c.hasFile THEN c ELSE Throw(c, UndefinedRead("size"))
  ELSE IF c.hasFile THEN c
       ELSE [Send(c, Json(400, "Image is required", Absent, Absent, Absent))
               EXCEPT !.returned = TRUE]

\* if (req.file?.path && fs.existsSync(req.file.path))
CatchNeedsUnlink(c) == c.hasFile /\ c.path \in c.files

\* The /analyze-image catch block, entered with c.threw the caught error;
\* fs.existsSync and fs.unlinkSync are two calls, and the file may go
\* between them.
AnalyzeCatch(v, c, unlinkFails, gone) ==
  LET err == c.threw
      c0 == Vanish([c EXCEPT !.threw = NoErr], gone = "catch")
      c1 == IF CatchNeedsUnlink(c0)
            THEN UnlinkSync(Vanish(c0, gone = "unlink"), c0.path, unlinkFails)
            ELSE c0
  IN IF c1.threw # NoErr THEN c1 ELSE Send(c1, AnalyzeFailure(v, err))

\* The /analyze-image try block up to the generateContent call.
AnalyzeTryHead(v, c, readFails) ==
  LET c1 == AnalyzeEntry(v, c)
  IN IF c1.threw # NoErr \/ c1.returned THEN c1
     ELSE IF ~c1.hasFile THEN Throw(c1, UndefinedRead("path"))
     ELSE LET c2 == ReadFileSync(c1, c1.path, readFails)
          IN IF c2.threw # NoErr THEN c2
             ELSE [Note(c2, "generate") EXCEPT !.awaiting = TRUE]

\* The /analyze-image try block after the generateContent promise settled.
AnalyzeTryTail(c, g, unlinkFails) ==
  IF g.kind = "err" THEN Throw(c, ApiError(g))
  ELSE LET c1 == UnlinkSync(c, c.path, unlinkFails)
       IN IF c1.threw # NoErr THEN c1
          ELSE Send(c1, Json(200, Absent, Absent, g.text, Absent))

\* The /test-gemini handler after the generateContent promise settled.
TestTail(v, c, g) ==
  IF v = "index.js"
  THEN IF g.kind = "err" THEN Throw(c, ApiError(g))
       ELSE Send(c, Json(200, Absent, Absent, g.text, Absent))
  ELSE IF g.kind = "err"
       THEN Send(c, Json(500, "Gemini API test failed", Absent, Absent, "false"))
       ELSE Send(c, Json(200, Absent, Absent, g.text, "true"))

\* The end of an async handler: a pending exception rejects its promise.
\* express 4 leaves the rejection unhandled, and node, with no
\* unhandledRejection listener installed, ends the process; express 5
\* passes it to next(err), where a response already begun makes the default
\* handler destroy the socket.
Settle(v, mode, c, route) ==
  IF c.threw = NoErr THEN c
  ELSE IF mode = "unhandled"
  THEN Note([c EXCEPT !.threw = NoErr, !.exited = TRUE], "unhandledRejection")
  ELSE IF c.resp # << >>
  THEN Note([c EXCEPT !.threw = NoErr], "socketDestroyed")
  ELSE [c EXCEPT !.threw = NoErr,
                 !.resp = Append(@, OnError(v, route, c.threw)),
                 !.log = Append(@, "respond")]

\* The environment of one run: the temp file removed from outside, I/O
\* failures, and the express in use.
StartEnv ==
  [gone : GonePoints, readFails : BOOLEAN, unlinkFails : BOOLEAN,
   mode : AsyncErrorModes]

ResumeEnv ==
  [gone : GonePoints, unlinkFails : BOOLEAN, unlinkFailsAgain : BOOLEAN,
   mode : AsyncErrorModes]

\* The /analyze-image handler from its call to its first await or its end.
AnalyzeStart(v, c, e) ==
  LET h == AnalyzeTryHead(v, Vanish(c, e.gone = "start"), e.readFails)
  IN IF h.threw # NoErr
     THEN Settle(v, e.mode, AnalyzeCatch(v, h, e.unlinkFails, e.gone),
                 "analyze")
     ELSE h

\* The /analyze-image handler from the settled promise g to its end.
AnalyzeResume(v, c, g, e) ==
  LET t == AnalyzeTryTail(Vanish(c, e.gone = "start"), g, e.unlinkFails)
  IN Settle(v, e.mode,
            IF t.threw # NoErr
            THEN AnalyzeCatch(v, t, e.unlinkFailsAgain, e.gone)
            ELSE t,
            "analyze")

\* The /test-gemini handler from the settled promise g to its end.
TestResume(v, c, g, e) == Settle(v, e.mode, TestTail(v, c, g), "test")

----------------------------------------------------------------------------
(* State machine *)

NoReq == [route |-> "test", file |-> NoFile, prompt |-> <<>>]

Init ==
  /\ variant \in Variants
  /\ running = TRUE
  /\ pc = [r \in Reqs |-> "idle"]
  /\ req = [r \in Reqs |-> NoReq]
  /\ path = [r \in Reqs |-> 0]
  /\ reqFile = [r \in Reqs |-> FALSE]
  /\ files = {}
  /\ filterCalls = [r \in Reqs |-> << >>]
  /\ parts = [r \in Reqs |-> << >>]
  /\ genres = [r \in Reqs |-> NoGen]
  /\ log = [r \in Reqs |-> << >>]
  /\ resp = [r \in Reqs |-> << >>]

\* The server keeps nothing of a request it has finished with.  The model
\* keeps a finished request's record (pc = "done") until the server's next
\* step, and then closes it.
Forget(f, blank) == [q \in Reqs |-> IF pc[q] = "done" THEN blank ELSE f[q]]

\* The step of request r: its new record, the other requests' untouched;
\* exited is whether the run ended the process.
Step(r, npc, npath, nreqFile, nfc, nparts, ngen, nlog, nresp, exited) ==
  /\ running' = ~exited
  /\ pc' = [Forget(pc, "closed") EXCEPT ![r] = npc]
  /\ path' = [Forget(path, 0) EXCEPT ![r] = npath]
  /\ reqFile' = [Forget(reqFile, FALSE) EXCEPT ![r] = nreqFile]
  /\ filterCalls' = [Forget(filterCalls, << >>) EXCEPT ![r] = nfc]
  /\ parts' = [Forget(parts, << >>) EXCEPT ![r] = nparts]
  /\ genres' = [Forget(genres, NoGen) EXCEPT ![r] = ngen]
  /\ log' = [Forget(log, << >>) EXCEPT ![r] = nlog]
  /\ resp' = [Forget(resp, << >>) EXCEPT ![r] = nresp]
  /\ UNCHANGED variant

\* The name multer's storage draws for the next file: one no file bears.
FreshName ==
  Filename(CHOOSE n \in 1..(Cardinality(files) + 1) :
             n \notin files /\ \A m \in 1..(n - 1) : m \in files)

\* Every action needs the process alive (running).
\* A request arrives and is routed (requests are numbered in arrival order).
\* GET / answers at once.  GET /test-gemini has no body: its handler runs at
\* once, up to its await.
\* POST /analyze-image goes through upload.single("image"), first stage:
\* without a file part multer calls the route handler (req.file undefined);
\* with one, fileFilter runs and the storage opens the temp file.  A second
\* cb(null, true) after cb(err) reaches multer once it has already passed
\* the error on; whether the storage then leaves a file behind is multer's
\* business (leak).
Arrive(r) ==
  /\ running
  /\ pc[r] = "idle"
  /\ IF r = 1 THEN TRUE ELSE pc[r - 1] # "idle"
  /\ \E i \in Inputs :
       LET fc == IF i.file.present THEN FileFilterCalls(variant, i.file)
                 ELSE << >>
       IN /\ req' = [Forget(req, NoReq) EXCEPT ![r] = i]
          /\ IF i.route = "health"
             THEN LET c == Send(Ctx(r, FALSE), HealthText(variant))
                  IN /\ Step(r, "done", path[r], reqFile[r], fc, parts[r],
                             genres[r], c.log, c.resp, c.exited)
                     /\ UNCHANGED files
             ELSE IF i.route = "test"
             THEN /\ Step(r, "awaiting", path[r], reqFile[r], fc,
                          TestParts(variant), genres[r], << "generate" >>,
                          resp[r], FALSE)
                  /\ UNCHANGED files
             ELSE IF ~i.file.present
             THEN \E c \in { AnalyzeStart(variant, Ctx(r, FALSE), e) :
                             e \in StartEnv } :
                    /\ Step(r, "done", path[r], FALSE, fc, parts[r],
                            genres[r], c.log, c.resp, c.exited)
                    /\ files' = c.files
             ELSE IF fc[1] = "reject"
             THEN \E leak \in (IF Len(fc) > 1 THEN BOOLEAN ELSE {FALSE}) :
                    /\ Step(r, "done", IF leak THEN FreshName ELSE 0,
                            reqFile[r], fc, parts[r], genres[r],
                            (IF leak THEN << "stored" >> ELSE << >>)
                              \o << "respond" >>,
                            << OnError(variant, "analyze",
                                 [kind |-> "Error", code |-> "",
                                  message |-> "Only image files allowed"]) >>,
                            FALSE)
                    /\ files' = IF leak THEN files \cup {FreshName} ELSE files
             ELSE /\ Step(r, "storing", FreshName, reqFile[r], fc,
                          parts[r], genres[r], << "stored" >>, resp[r], FALSE)
                  /\ files' = files \cup {FreshName}

\* upload.single("image"), second stage: the file part ends.  Over the
\* fileSize limit multer removes the file and passes LIMIT_FILE_SIZE to
\* next(err); otherwise it sets req.file and calls the route handler, which
\* runs up to its await (or to its end).
MulterEnd(r) ==
  /\ running
  /\ pc[r] = "storing"
  /\ req' = Forget(req, NoReq)
  /\ IF req[r].file.size > FileSizeLimit(variant)
     THEN /\ Step(r, "done", path[r], reqFile[r], filterCalls[r], parts[r],
                  genres[r], log[r] \o << "removed", "respond" >>,
                  << OnError(variant, "analyze",
                       [kind |-> "MulterError", code |-> "LIMIT_FILE_SIZE",
                        message |-> "File too large"]) >>,
                  FALSE)
          /\ files' = files \ {path[r]}
     ELSE \E c \in { AnalyzeStart(variant, Ctx(r, TRUE), e) : e \in StartEnv } :
            /\ Step(r, IF c.awaiting THEN "awaiting" ELSE "done", path[r],
                    TRUE, filterCalls[r],
                    IF c.awaiting THEN ImageParts(variant, req[r])
                    ELSE parts[r],
                    genres[r], c.log, c.resp, c.exited)
            /\ files' = c.files

\* The generateContent promise settles and the handler runs to its end.
HandlerResume(r) ==
  /\ running
  /\ pc[r] = "awaiting"
  /\ req' = Forget(req, NoReq)
  /\ \E o \in { [g |-> g,
                 c |-> LET c0 == Note(Ctx(r, reqFile[r]),
                                      IF g.kind = "ok" THEN "generate:resolved"
                                      ELSE "generate:rejected")
                       IN IF req[r].route = "test"
                          THEN TestResume(variant, c0, g, e)
                          ELSE AnalyzeResume(variant, c0, g, e)] :
                g \in GenResults, e \in ResumeEnv } :
       /\ Step(r, "done", path[r], reqFile[r], filterCalls[r], parts[r],
               o.g, o.c.log, o.c.resp, o.c.exited)
       /\ files' = o.c.files

Next ==
  \E r \in Reqs :
    \/ Arrive(r)
    \/ MulterEnd(r)
    \/ HandlerResume(r)

Spec == Init /\ [][Next]_vars

----------------------------------------------------------------------------
(* Properties *)

Done(r) == pc[r] = "done"

Analyze(r) == pc[r] \notin {"idle", "closed"} /\ req[r].route = "analyze"

Has(r, ev) == ev \in Range(log[r])

\* The place of the first ev in request r's log (0 when it has none).
At(r, ev) ==
  IF Has(r, ev) THEN CHOOSE i \in 1..Len(log[r]) :
                       log[r][i] = ev /\ \A j \in 1..(i - 1) : log[r][j] # ev
  ELSE 0

\* The fs.unlinkSync calls the handler made for request r.
UnlinkCalls(r) ==
  Cardinality({ i \in 1..Len(log[r]) :
                  log[r][i] \in {"unlink", "unlink:EPERM", "unlink:ENOENT"} })

Oversize(r) ==
  Analyze(r) /\ req[r].file.present
    /\ req[r].file.size > FileSizeLimit(variant)

Structured(r, status) ==
  /\ Len(resp[r]) = 1
  /\ resp[r][1].type = "json"
  /\ resp[r][1].status = status
  /\ resp[r][1].error # Absent

\* C1: every /analyze-image request whose upload was stored and handed to
\* the handler ends with its temp file deleted, by exactly one delete call
\* (a file removed from outside the program is not the handler's to
\* delete).
C1_TempFileReleasedOnce ==
  \A r \in Reqs :
    Done(r) /\ Analyze(r) /\ reqFile[r] /\ ~Has(r, "gone")
      => path[r] \notin files /\ UnlinkCalls(r) = 1

\* C2: an upload over the size limit gets a structured 400 response, the
\* route handler does not run, and no temp file is left behind.
C2_OversizeAnswered400 ==
  \A r \in Reqs :
    Done(r) /\ Oversize(r)
      => /\ Structured(r, 400)
         /\ ~reqFile[r] /\ parts[r] = << >> /\ ~Has(r, "read")
         /\ path[r] \notin files

\* C3: a POST /analyze-image without an image file gets status 400 with an
\* error body, creates no temp file and never invokes the adapter.
C3_MissingImageAnswered400 ==
  \A r \in Reqs :
    Done(r) /\ Analyze(r) /\ ~req[r].file.present
      => /\ Structured(r, 400)
         /\ path[r] = 0 /\ ~Has(r, "stored")
         /\ parts[r] = << >> /\ ~Has(r, "generate")

\* C4: under the fileFilter of part_000 an upload whose MIME type does not
\* start with "image/" gets exactly one outcome from the filter (reject), a
\* structured 400-class response, no stored file, and no adapter call.
C4_NonImageRejectedOnce ==
  \A r \in Reqs :
    variant = "part_000" /\ Done(r) /\ Analyze(r) /\ req[r].file.present
      /\ ~StartsWithImage(req[r].file.mimetype)
      => /\ filterCalls[r] = << "reject" >>
         /\ Structured(r, 400)
         /\ path[r] \notin files
         /\ parts[r] = << >> /\ ~Has(r, "generate")

\* C5: the adapter is invoked for an accepted upload with exactly two parts,
\* the prompt (or the variant's default when it is absent or empty) and the
\* inline data with the declared MIME type and the base64 of the bytes; and
\* when the adapter succeeds with text T the response is 200 {output: T}.
C5_PartsAndSuccessResponse ==
  \A r \in Reqs :
    Analyze(r) /\ Has(r, "generate")
      => /\ Len(parts[r]) = 2
         /\ parts[r][1].kind = "text"
         /\ parts[r][1].text =
              (IF Len(req[r].prompt) = 1 /\ req[r].prompt[1] # ""
               THEN req[r].prompt[1] ELSE DefaultPrompt(variant))
         /\ parts[r][2].kind = "inlineData"
         /\ parts[r][2].mimeType = req[r].file.mimetype
         /\ parts[r][2].data = Base64(req[r].file.data)
         /\ (Done(r) /\ genres[r].kind = "ok"
               => /\ Len(resp[r]) = 1
                  /\ resp[r][1].type = "json"
                  /\ resp[r][1].status = 200
                  /\ resp[r][1].output = genres[r].text)

\* C6: the process is never ended by a request's failure, every request
\* that has been handled has received one response, no failure escaped as
\* an unhandled rejection, and every error response (status 400 and above)
\* is structured JSON.
C6_EveryFailureAnsweredInJson ==
  /\ running
  /\ \A r \in Reqs :
       Done(r) => /\ Len(resp[r]) = 1
                  /\ ~Has(r, "unhandledRejection")
                  /\ (resp[r][1].status >= 400 => resp[r][1].type = "json")

\* C7: the 500 response to an /analyze-image request whose generation call
\* failed carries no upstream error message in any of its fields.
C7_NoUpstreamMessageInResponse ==
  \A r \in Reqs :
    Done(r) /\ Analyze(r) /\ genres[r].kind = "err" /\ Len(resp[r]) = 1
      => \A g \in GenResults :
           g.kind = "err" => /\ resp[r][1].error # g.text
                             /\ resp[r][1].details # g.text
                             /\ resp[r][1].output # g.text
                             /\ resp[r][1].body # g.text

\* The order of the steps of one /analyze-image request up to the response:
\* the upload is validated (the file filter has given its outcome) before
\* it is stored, stored before it is read and encoded, encoded before the
\* adapter is called, and the adapter has returned or failed before the
\* response is written.
OrderedUpToResponse(r) ==
  /\ Has(r, "stored") => filterCalls[r] # << >>
  /\ Has(r, "generate")
       => /\ 0 < At(r, "stored") /\ At(r, "stored") < At(r, "read")
          /\ At(r, "read") < At(r, "generate")
  /\ Has(r, "generate") /\ Has(r, "respond")
       => \/ (Has(r, "generate:resolved")
                /\ At(r, "generate") < At(r, "generate:resolved")
                /\ At(r, "generate:resolved") < At(r, "respond"))
          \/ (Has(r, "generate:rejected")
                /\ At(r, "generate") < At(r, "generate:rejected")
                /\ At(r, "generate:rejected") < At(r, "respond"))

\* The removal of request r's temp file: by the handler or by multer.
CleanedAt(r) == IF Has(r, "unlink") THEN At(r, "unlink") ELSE At(r, "removed")

\* C8: within one /analyze-image request the steps are ordered validate,
\* store, encode, generate, respond, clean: the adapter is never invoked
\* before the upload is stored and encoded, the response is written only
\* after generation has returned or failed, and the temp file is cleaned
\* after the response is written, on the success and on the failure path.
C8_RespondThenClean ==
  \A r \in Reqs :
    Analyze(r)
      => /\ OrderedUpToResponse(r)
         /\ (Has(r, "respond") /\ CleanedAt(r) > 0
               => At(r, "respond") < CleanedAt(r))

\* C9: deleting a handle that is already deleted or never existed does not
\* raise (when the file of a request is gone, no delete call of its handler
\* throws ENOENT), and the temp file of a request in flight is removed only
\* by a step of that request itself, whatever the other requests do.
C9_DeleteIdempotentIsolated ==
  [][\A r \in Reqs :
       /\ ("gone" \in Range(log'[r])
             => "unlink:ENOENT" \notin Range(log'[r]))
       /\ (pc[r] \in {"storing", "awaiting"} /\ path[r] \in files
             /\ path[r] \notin files'
             => pc'[r] = "done" /\ log'[r] # log[r])]_vars

\* C10: the handler writes at most one response per request and never sends
\* again once a response has been written.
C10_AtMostOneResponse ==
  \A r \in Reqs :
    /\ Len(resp[r]) <= 1
    /\ ~Has(r, "send:ERR_HTTP_HEADERS_SENT")
    /\ Cardinality({ i \in 1..Len(log[r]) : log[r][i] = "respond" }) <= 1

C10_Witness ==
  \E r \in Reqs :
    /\ Done(r) /\ Analyze(r) /\ genres[r].kind = "ok"
    /\ Has(r, "unlink:EPERM")
    /\ Len(resp[r]) = 1 /\ resp[r][1].status = 500

====
